---------------------------- MODULE Spec2Model ----------------------------
(***************************************************************************)
(* Model of the menu-bar command of src/src/index.tsx: the history of      *)
(* (timestamp, percent) observations kept in React state and in the        *)
(* Raycast Cache under "migration_history", the two effects that load and  *)
(* record it, and the completion estimate derived from it.                 *)
(*                                                                         *)
(* Numbers: percents and timestamps are integers; the quotient             *)
(* timeDiff / percentDiff is kept as an exact fraction <<num, den>> in     *)
(* lowest terms (floating-point rounding is not modelled).                 *)
(***************************************************************************)
EXTENDS Integers, Sequences, FiniteSets, TLC

(* ---------------------------- bounds ---------------------------------- *)

\* percents below 100 that the status source reports: 0, 10, .., 10 * MaxPct
MaxPct == 2
\* instants the status source reports in last_updated: tick 0 .. MaxTick
MaxTick == 1
\* longest history found in the cache when the command is first launched
MaxStored == 2
\* abandoned requests whose response is still outstanding
MaxStale == 1

Percents == {10 * i : i \in 0..MaxPct} \cup {100}
Ticks == 0..MaxTick

(* ---------------------------- values ---------------------------------- *)

\* ApiResponse, reduced to the two fields the effects read
Responses == [percent_completed : Percents, last_updated : Ticks]
NoData == [percent_completed |-> -1, last_updated |-> -1]

\* new Date(data.last_updated).getTime(): milliseconds; two consecutive
\* instants of the status source are 600 s apart
DateGetTime(lastUpdated) == 600000 * lastUpdated

\* HistoryItem
HistoryItems == [timestamp : {DateGetTime(t) : t \in Ticks}, percent : Percents]
NoItem == [timestamp |-> -1, percent |-> -1]

Last(s) == s[Len(s)]

RECURSIVE SeqsUpTo(_, _)
SeqsUpTo(S, n) ==
    IF n = 0 THEN {<<>>}
    ELSE LET shorter == SeqsUpTo(S, n - 1)
         IN  shorter \cup {Append(s, x) : s \in {t \in shorter : Len(t) = n - 1}, x \in S}

(* ------------------- the cache entry and JSON ------------------------- *)

\* content of the cache under "migration_history": no entry, a string that
\* is not JSON, the JSON text null, or the JSON text of an array of items
\* (each item written as the pair of its timestamp and percent)
Missing == [type |-> "missing", items |-> <<>>]
Garbage == [type |-> "garbage", items |-> <<>>]
JsonNull == [type |-> "null", items |-> <<>>]

\* JSON.stringify(newHistory)
JSONStringify(h) ==
    [type |-> "array", items |-> [i \in 1..Len(h) |-> <<h[i].timestamp, h[i].percent>>]]

\* JSON.parse(cached): does it throw, and what it returns
ParseThrows(c) == c.type = "garbage"
ParseKind(c) == IF c.type = "array" THEN "array" ELSE "null"
ParseItems(c) ==
    IF c.type = "array"
    THEN [i \in 1..Len(c.items) |-> [timestamp |-> c.items[i][1], percent |-> c.items[i][2]]]
    ELSE <<>>

StoredContents ==
    {Missing, Garbage, JsonNull} \cup {JSONStringify(h) : h \in SeqsUpTo(HistoryItems, MaxStored)}

(* ------------------------ exact fractions ----------------------------- *)

RECURSIVE GCD(_, _)
GCD(a, b) == IF b = 0 THEN a ELSE GCD(b, a % b)

\* n / d for n >= 0, d > 0, in lowest terms
Frac(n, d) == LET g == GCD(n, d) IN <<n \div g, d \div g>>
FracTimes(k, f) == Frac(k * f[1], f[2])
FracPlus(k, f) == Frac(k * f[2] + f[1], f[2])

(* --------------------------- estimate --------------------------------- *)

NoEstimate == [defined |-> FALSE, remainingMs |-> <<0, 1>>, completionDate |-> <<0, 1>>]

\* the sample the rate is measured from: history[0]
FirstSampleMut(h) == h[Len(h) - 1]
FirstSample(h) == h[1]

\* the useMemo body; only called with an array
EstimateOf(h) ==
    IF Len(h) < 2 THEN NoEstimate
    ELSE LET first == FirstSample(h)
             last == Last(h)
             timeDiff == last.timestamp - first.timestamp
             percentDiff == last.percent - first.percent
         IN  IF percentDiff <= 0 \/ timeDiff <= 0 THEN NoEstimate
             ELSE LET msPerPercent == Frac(timeDiff, percentDiff)
                      remainingPercent == 100 - last.percent
                      remainingMs == FracTimes(remainingPercent, msPerPercent)
                  IN  [defined |-> TRUE,
                       remainingMs |-> remainingMs,
                       completionDate |-> FracPlus(last.timestamp, remainingMs)]

(* ------------------------ the record updater -------------------------- *)

\* currentPercent < lastItem.percent
IsResetMut(lastItem, currentPercent) == currentPercent > lastItem.percent
IsReset(lastItem, currentPercent) == currentPercent < lastItem.percent

\* lastItem.percent === currentPercent
IsDuplicateMut(lastItem, item) ==
    lastItem.percent = item.percent /\ lastItem.timestamp = item.timestamp
IsDuplicate(lastItem, item) == lastItem.percent = item.percent

RecordBranch(prev, item) ==
    IF prev # <<>> /\ IsReset(Last(prev), item.percent) THEN "reset"
    ELSE IF prev # <<>> /\ IsDuplicate(Last(prev), item) THEN "duplicate"
    ELSE "append"

\* newHistory of the reset branch
ResetHistoryMut(prev, item) == Append(prev, item)
ResetHistory(prev, item) == <<item>>

\* newHistory of the append branch
AppendHistoryMut(prev, item) == <<item>> \o prev
AppendHistory(prev, item) == Append(prev, item)

\* value returned by the updater
RecordHistory(prev, item) ==
    CASE RecordBranch(prev, item) = "reset" -> ResetHistory(prev, item)
      [] RecordBranch(prev, item) = "duplicate" -> prev
      [] OTHER -> AppendHistory(prev, item)

\* does the branch call cache.set
BranchWritesMut(branch) == branch = "reset"
BranchWrites(branch) == branch # "duplicate"

\* the state the updater starts from: its argument prev, not the history
\* the effect's closure saw
UpdaterBaseMut(prev, closure) == closure
UpdaterBase(prev, closure) == prev

(* ----------------------------- state ---------------------------------- *)

VARIABLES
    cache,        \* cache entry "migration_history"
    historyKind,  \* "array", or "null" when the state holds a parsed null
    history,      \* the history state (<<>> when historyKind = "null")
    estimate,     \* value of the estimate memo at the last render
    data,         \* data returned by useFetch
    inflight,     \* useFetch has a request in flight
    stale,        \* abandoned requests still outstanding
    flush,        \* effects still to run after the last commit
    queue,        \* state updates enqueued by setHistory, not yet rendered
    crashed,      \* an effect updater or a render has thrown
    expected,     \* the records requested so far, applied one after another
    last          \* what the last step did

vars == <<cache, historyKind, history, estimate, data, inflight, stale,
          flush, queue, crashed, expected, last>>

\* order in which the two effects of Command run after a commit
MountEffectOrderMut == <<"record", "load">>
MountEffectOrder == <<"load", "record">>

\* data after a request failed: useFetch keeps the previous data
FailedPollDataMut(d) == [percent_completed |-> 10, last_updated |-> 0]
FailedPollData(d) == d

Did(act, item, base, wrote) ==
    [act |-> act, obs |-> item, prev |-> base, wrote |-> wrote,
     prevHistory |-> history, prevCache |-> cache, prevEstimate |-> estimate]

Init ==
    /\ cache \in StoredContents
    /\ historyKind = "array"
    /\ history = <<>>
    /\ estimate = NoEstimate
    /\ data \in Responses \cup {NoData}
    /\ inflight = TRUE
    /\ stale = 0
    /\ flush = MountEffectOrder
    /\ queue = <<>>
    /\ crashed = FALSE
    /\ expected = <<>>
    /\ last = [act |-> "launch", obs |-> NoItem, prev |-> <<>>, wrote |-> FALSE,
               prevHistory |-> <<>>, prevCache |-> cache, prevEstimate |-> NoEstimate]

Quiescent == ~crashed /\ flush = <<>> /\ queue = <<>>

(* ----------------------------- effects -------------------------------- *)

\* useEffect(() => { cache.get ... setHistory(JSON.parse(cached)) }, [])
LoadEffect ==
    /\ ~crashed
    /\ flush # <<>>
    /\ Head(flush) = "load"
    /\ flush' = Tail(flush)
    /\ IF cache.type # "missing" /\ ~ParseThrows(cache)
       THEN /\ queue' = Append(queue, [kind |-> "set", valueKind |-> ParseKind(cache),
                                        value |-> ParseItems(cache), obs |-> NoItem,
                                        closure |-> <<>>])
            /\ expected' = ParseItems(cache)
       ELSE UNCHANGED <<queue, expected>>
    /\ last' = Did("load", NoItem, <<>>, FALSE)
    /\ UNCHANGED <<cache, historyKind, history, estimate, data, inflight, stale, crashed>>

\* useEffect(() => { if (!data) return; ... setHistory((prev) => ...) }, [data])
RecordEffect ==
    /\ ~crashed
    /\ flush # <<>>
    /\ Head(flush) = "record"
    /\ flush' = Tail(flush)
    /\ IF data # NoData
       THEN LET item == [timestamp |-> DateGetTime(data.last_updated),
                         percent |-> data.percent_completed]
            IN  /\ queue' = Append(queue, [kind |-> "record", valueKind |-> "array",
                                            value |-> <<>>, obs |-> item,
                                            closure |-> history])
                /\ expected' = RecordHistory(expected, item)
       ELSE UNCHANGED <<queue, expected>>
    /\ last' = Did("effect", NoItem, <<>>, FALSE)
    /\ UNCHANGED <<cache, historyKind, history, estimate, data, inflight, stale, crashed>>

(* ------------------------------ render -------------------------------- *)

\* one queued update applied to the state s of the render in progress
ApplyUpdate(s, u) ==
    IF s.raised THEN s
    ELSE IF u.kind = "set"
    THEN [s EXCEPT !.kind = u.valueKind, !.history = u.value]
    ELSE IF s.kind = "null"
    THEN [s EXCEPT !.raised = TRUE]      \* prev.length of null
    ELSE LET base == UpdaterBase(s.history, u.closure)
             branch == RecordBranch(base, u.obs)
             newHistory == RecordHistory(base, u.obs)
         IN  [s EXCEPT !.history = newHistory,
                       !.cache = IF BranchWrites(branch)
                                 THEN JSONStringify(newHistory) ELSE @,
                       !.wrote = @ \/ BranchWrites(branch),
                       !.prev = base,
                       !.obs = u.obs]

RECURSIVE ApplyQueue(_, _)
ApplyQueue(s, q) == IF q = <<>> THEN s ELSE ApplyQueue(ApplyUpdate(s, Head(q)), Tail(q))

\* the render after setHistory: the queued updates in order, then the memo
Render ==
    /\ ~crashed
    /\ flush = <<>>
    /\ queue # <<>>
    /\ LET s0 == [kind |-> historyKind, history |-> history, cache |-> cache,
                  wrote |-> FALSE, raised |-> FALSE, prev |-> <<>>, obs |-> NoItem]
           s == ApplyQueue(s0, queue)
           throws == s.raised \/ s.kind = "null"   \* history.length of null
       IN  /\ cache' = s.cache
           /\ crashed' = throws
           /\ historyKind' = IF s.raised THEN historyKind ELSE s.kind
           /\ history' = IF s.raised THEN history ELSE s.history
           /\ estimate' = IF throws THEN estimate ELSE EstimateOf(s.history)
           /\ last' = Did("render", s.obs, s.prev, s.wrote)
    /\ queue' = <<>>
    /\ UNCHANGED <<data, inflight, stale, flush, expected>>

(* ------------------------------ polls --------------------------------- *)

\* the request in flight resolves with a response
PollOk ==
    /\ Quiescent
    /\ inflight
    /\ \E r \in Responses :
         /\ data' = r
         /\ flush' = <<"record">>
    /\ inflight' = FALSE
    /\ last' = Did("ok", NoItem, <<>>, FALSE)
    /\ UNCHANGED <<cache, historyKind, history, estimate, stale, queue, crashed, expected>>

\* the request in flight fails
PollFail ==
    /\ Quiescent
    /\ inflight
    /\ data' = FailedPollData(data)
    /\ flush' = IF data' # data THEN <<"record">> ELSE flush
    /\ inflight' = FALSE
    /\ last' = Did("fail", NoItem, <<>>, FALSE)
    /\ UNCHANGED <<cache, historyKind, history, estimate, stale, queue, crashed, expected>>

\* the Reload item: revalidate() starts a request and abandons the one in flight
Reload ==
    /\ Quiescent
    /\ data # NoData
    /\ IF inflight THEN stale < MaxStale /\ stale' = stale + 1 ELSE stale' = stale
    /\ inflight' = TRUE
    /\ last' = Did("reload", NoItem, <<>>, FALSE)
    /\ UNCHANGED <<cache, historyKind, history, estimate, data, flush, queue, crashed, expected>>

\* an abandoned request resolves or fails: useFetch drops the outcome
StaleResolve ==
    /\ Quiescent
    /\ stale > 0
    /\ stale' = stale - 1
    /\ last' = Did("stale", NoItem, <<>>, FALSE)
    /\ UNCHANGED <<cache, historyKind, history, estimate, data, inflight, flush, queue,
                   crashed, expected>>

\* the command is launched again (background refresh interval): new state,
\* same cache; useFetch may start from the data it cached
Relaunch ==
    /\ flush = <<>>
    /\ queue = <<>>
    /\ historyKind' = "array"
    /\ history' = <<>>
    /\ estimate' = NoEstimate
    /\ data' \in {data, NoData}
    /\ inflight' = TRUE
    /\ stale' = 0
    /\ flush' = MountEffectOrder
    /\ queue' = <<>>
    /\ crashed' = FALSE
    /\ expected' = <<>>
    /\ last' = Did("launch", NoItem, <<>>, FALSE)
    /\ UNCHANGED cache

Next ==
    \/ LoadEffect
    \/ RecordEffect
    \/ Render
    \/ PollOk
    \/ PollFail
    \/ Reload
    \/ StaleResolve
    \/ Relaunch

Spec == Init /\ [][Next]_vars

\* first launch on a machine whose cache has no history entry: every cache
\* content met later was written by the record updater
InitRun == Init /\ cache = Missing

SpecRun == InitRun /\ [][Next]_vars

(* --------------------------- properties ------------------------------- *)

\* the last step was a render that ran a record updater to its end
Recorded == last.act = "render" /\ ~crashed /\ last.obs # NoItem

PercentIncreasing(h) == \A i \in 1..(Len(h) - 1) : h[i].percent < h[i + 1].percent
TimeOrdered(h) == \A i \in 1..(Len(h) - 1) : h[i].timestamp <= h[i + 1].timestamp

\* history the load effect puts in the state for a cache content
LoadedItems(c) == IF c.type = "array" THEN ParseItems(c) ELSE <<>>

\* C1: a record whose percent is below the last recorded percent leaves a
\* history of exactly the new observation, and that history is what is
\* written to the cache.
C1_ResetKeepsOnlyNew ==
    (Recorded /\ last.prev # <<>> /\ last.obs.percent < Last(last.prev).percent)
        => /\ history = <<last.obs>>
           /\ last.wrote
           /\ cache = JSONStringify(<<last.obs>>)

C1_Witness ==
    /\ Recorded
    /\ Len(last.prev) >= 2
    /\ last.obs.percent < Last(last.prev).percent
    /\ history = <<last.obs>>

\* C2: a record whose percent equals the last recorded percent, whatever
\* its timestamp, leaves the history as it was and does not write the cache.
C2_DuplicateIsNoOp ==
    (Recorded /\ last.prev # <<>> /\ last.obs.percent = Last(last.prev).percent)
        => /\ history = last.prev
           /\ ~last.wrote
           /\ cache = last.prevCache

C2_Witness ==
    /\ Recorded
    /\ last.prev # <<>>
    /\ last.obs.percent = Last(last.prev).percent
    /\ last.obs.timestamp # Last(last.prev).timestamp
    /\ history = last.prev

\* the estimate as the contract states it, from the first and last sample
ContractEstimate(h) ==
    IF Len(h) < 2 \/ Last(h).percent - h[1].percent <= 0
                  \/ Last(h).timestamp - h[1].timestamp <= 0
    THEN NoEstimate
    ELSE LET td == Last(h).timestamp - h[1].timestamp
             pd == Last(h).percent - h[1].percent
         IN  [defined |-> TRUE,
              remainingMs |-> Frac((100 - Last(h).percent) * td, pd),
              completionDate |-> Frac(Last(h).timestamp * pd + (100 - Last(h).percent) * td, pd)]

\* C3: the estimate is none exactly when the history has fewer than two
\* samples or the percent or time difference between the first and the last
\* sample is not positive; otherwise the remaining time is
\* (100 - last.percent) * timeDiff / percentDiff and the completion instant
\* is last.timestamp plus that, whatever the samples in between.
C3_EstimateContract ==
    (~crashed /\ historyKind = "array") => estimate = ContractEstimate(history)

C3_Witness ==
    /\ last.act = "render"
    /\ Len(history) >= 3
    /\ history[1] = [timestamp |-> 0, percent |-> 10]
    /\ Last(history) = [timestamp |-> 600000, percent |-> 20]
    /\ estimate.defined
    /\ estimate.remainingMs = <<4800000, 1>>
    /\ estimate.completionDate = <<5400000, 1>>

\* C4: starting from no stored history, and across relaunches that load
\* what the program stored, percent strictly increases from each sample of
\* the history to the next.
C4_PercentIncreasing == PercentIncreasing(history)

C4_Witness == Recorded /\ Len(history) >= 3 /\ Len(last.prev) = Len(history) - 1

\* C5 as stated: the timestamps of the history never decrease from one
\* sample to the next.
C5_TimeOrderedAlways == TimeOrdered(history)

\* C5 amended: samples are kept in the order the record calls appended them;
\* the timestamps are ordered after a record when they were ordered before
\* it and the new timestamp is not earlier than the last recorded one.
C5_AppendKeepsOrder ==
    (Recorded /\ TimeOrdered(last.prev)
        /\ (last.prev = <<>> \/ last.obs.timestamp >= Last(last.prev).timestamp))
        => TimeOrdered(history)

C5_Witness ==
    /\ Recorded
    /\ Len(last.prev) >= 2
    /\ TimeOrdered(last.prev)
    /\ last.obs.timestamp > Last(last.prev).timestamp
    /\ history = Append(last.prev, last.obs)

\* C6: after every record that ran to its end the cache entry is the
\* serialized history, whatever the entry was at launch, and no other step
\* changes the entry.
C6_CacheMatchesHistory ==
    /\ Recorded => cache = JSONStringify(history)
    /\ last.act # "render" => cache = last.prevCache

C6_Witness ==
    /\ Recorded
    /\ last.prevCache = Garbage
    /\ history # <<>>
    /\ cache = JSONStringify(history)

\* C7: whatever the cache entry holds, loading it never makes a later
\* render or record throw, and the state it leaves is a sequence.
C7_LoadNeverRaises == ~crashed /\ historyKind = "array"

C10_LoadBeforeRecord ==
    (Recorded /\ last.prevHistory = <<>>)
        => /\ last.prev = LoadedItems(last.prevCache)
           /\ history = RecordHistory(LoadedItems(last.prevCache), last.obs)

C10_Witness ==
    /\ Recorded
    /\ last.prevHistory = <<>>
    /\ last.prev # <<>>
    /\ last.prev = LoadedItems(last.prevCache)
    /\ history = Append(last.prev, last.obs)

=============================================================================
